---- MODULE Spec2Model ----
(***************************************************************************)
(* Session state machine of app.py: a Streamlit page that transcribes an   *)
(* uploaded audio file (whisper), translates the transcription             *)
(* (googletrans) and reads either text aloud (gTTS).  Every user action    *)
(* re-runs the script once; st.session_state survives the re-runs.         *)
(*                                                                         *)
(* Texts are sequences of one-character strings, so that str.strip() is a  *)
(* real computation.  Paths are sequences of path components.  The keys    *)
(* transcription_area and translation_area of st.session_state are only    *)
(* ever assigned (no widget carries them, nothing reads them) and are left *)
(* out.                                                                    *)
(***************************************************************************)
EXTENDS Integers, Sequences, FiniteSets, TLC

VARIABLES
  session_state,    \* st.session_state
  uploaded_file,    \* the file uploader's value
  files,            \* the files on disk: path -> content
  dirs,             \* the directories on disk
  clock,            \* datetime.now(), in seconds
  runs,             \* how many times a file has been submitted for transcription
  run,              \* what the latest run of the script did
  normalizer        \* one application of tts_lang_from_googletrans_code

vars == <<session_state, uploaded_file, files, dirs, clock, runs, run, normalizer>>

(* ------------------------------ bounds --------------------------------- *)
\* Number of entries of LANG_OPTIONS (in source order) the selector offers.
MaxLabels == 3
\* Number of times a file is submitted for transcription.
MaxTranscribes == 2

(* --------------------------- language registry ------------------------- *)
\* Language codes are sequences of characters; Python's None is the
\* one-element sequence below, which is no character string.
NoCode == <<"None">>

LabelOrder ==
  <<"None", "Spanish", "French", "German", "Turkish", "Japanese",
    "Chinese (Simplified)", "Chinese (Traditional)", "Polish", "Italian",
    "Portuguese", "Russian", "Korean", "Arabic", "Dutch", "Greek", "Hindi">>

LANG_OPTIONS ==
  [l \in {LabelOrder[i] : i \in 1..Len(LabelOrder)} |->
     CASE l = "None" -> NoCode
       [] l = "Spanish" -> <<"e", "s">>
       [] l = "French" -> <<"f", "r">>
       [] l = "German" -> <<"d", "e">>
       [] l = "Turkish" -> <<"t", "r">>
       [] l = "Japanese" -> <<"j", "a">>
       [] l = "Chinese (Simplified)" -> <<"z", "h", "-", "c", "n">>
       [] l = "Chinese (Traditional)" -> <<"z", "h", "-", "t", "w">>
       [] l = "Polish" -> <<"p", "l">>
       [] l = "Italian" -> <<"i", "t">>
       [] l = "Portuguese" -> <<"p", "t">>
       [] l = "Russian" -> <<"r", "u">>
       [] l = "Korean" -> <<"k", "o">>
       [] l = "Arabic" -> <<"a", "r">>
       [] l = "Dutch" -> <<"n", "l">>
       [] l = "Greek" -> <<"e", "l">>
       [] l = "Hindi" -> <<"h", "i">>]

\* The options the selector is exercised with: MaxLabels of them, a prefix of
\* the registry and one language whose code gTTS does not take as it is.
Labels ==
  {LabelOrder[i] : i \in 1..(IF MaxLabels - 1 < Len(LabelOrder)
                               THEN MaxLabels - 1 ELSE Len(LabelOrder))}
    \cup {"Chinese (Simplified)"}

(* ------------------------------- folders ------------------------------- *)
temp_upload_folder == <<"TempUploads">>
results_folder == <<"Results">>

(* -------------------------------- texts -------------------------------- *)
IsSpace(c) == c \in {" ", "\n", "\t"}

RECURSIVE LStrip(_)
LStrip(s) == IF s # <<>> /\ IsSpace(Head(s)) THEN LStrip(Tail(s)) ELSE s

RECURSIVE RStrip(_)
RStrip(s) ==
  IF s # <<>> /\ IsSpace(s[Len(s)]) THEN RStrip(SubSeq(s, 1, Len(s) - 1)) ELSE s

\* str.strip()
Strip(s) == RStrip(LStrip(s))

\* result.get("text"): None, or the recognised text with its whitespace.
NoText == [none |-> TRUE, text |-> <<>>]
WhisperResults ==
  {NoText} \cup
  {[none |-> FALSE, text |-> t] :
     t \in {<<" ", "h", "i", "\n">>, <<" ", "\t">>}}

\* (result.get("text") or "")
TextOrEmpty(result) == IF result.none THEN <<>> ELSE result.text

\* translator.translate(text, dest=code).text for a deterministic engine: the
\* answer depends on both arguments and carries surrounding whitespace.
TranslatorText(text, dest) == <<" ">> \o dest \o <<":">> \o text \o <<"\n">>

\* str(e) of a translation failure.
TranslateErrors == {"timeout"}

(* ------------------------------- uploads ------------------------------- *)
NoFile == [stem |-> "", ext |-> ""]
UploadNames == {[stem |-> "talk", ext |-> "mp3"]}

FileName(f) == f.stem \o "." \o f.ext
\* os.path.splitext(os.path.basename(name))[0]
SplitextStem(f) == f.stem

AudioBytes == <<"audio">>

(* ----------------------------- file system ----------------------------- *)
\* open(path, "w") followed by one write(): the file holds exactly content.
WriteFile(fs, path, content) ==
  [p \in DOMAIN fs \cup {path} |-> IF p = path THEN content ELSE fs[p]]

\* The files among paths that exist: open(path, "w") truncates them.
Existing(fs, path) == {path} \cap DOMAIN fs

\* os.makedirs(path, exist_ok=True)
MakeDirs(ds, path) == ds \cup {SubSeq(path, 1, k) : k \in 1..Len(path)}

\* datetime.now().strftime("%Y%m%d_%H%M%S"): one value per second.
Timestamp(now) == ToString(now)

create_output_folder(f, now) ==
  results_folder \o <<SplitextStem(f) \o "_" \o Timestamp(now)>>

translation_file(output_folder, language_label) ==
  output_folder \o <<"Translations", language_label \o "_translation.txt">>

\* As save_translation, with the file opened in mode "a".
save_translation_append(fs, output_folder, language_label, translation_text) ==
  LET p == translation_file(output_folder, language_label) IN
  WriteFile(fs, p, (IF p \in DOMAIN fs THEN fs[p] ELSE <<>>) \o translation_text)

save_translation(fs, output_folder, language_label, translation_text) ==
  WriteFile(fs, translation_file(output_folder, language_label), translation_text)

transcription_file(output_folder) == output_folder \o <<"transcription.txt">>

\* As save_transcription, with the file joined to results_folder.
save_transcription_in_root(fs, output_folder, transcription_text) ==
  WriteFile(fs, transcription_file(results_folder), transcription_text)

\* "Save English transcription"
save_transcription(fs, output_folder, transcription_text) ==
  WriteFile(fs, transcription_file(output_folder), transcription_text)

temp_file_path(f) == temp_upload_folder \o <<FileName(f)>>
(* ----------------------- language-code normalizer ---------------------- *)
UpperChars == <<"A", "B", "C", "D", "E", "F", "G", "H", "I", "J", "K", "L", "M",
                "N", "O", "P", "Q", "R", "S", "T", "U", "V", "W", "X", "Y", "Z">>
LowerChars == <<"a", "b", "c", "d", "e", "f", "g", "h", "i", "j", "k", "l", "m",
                "n", "o", "p", "q", "r", "s", "t", "u", "v", "w", "x", "y", "z">>

LowerChar(ch) ==
  IF \E i \in 1..Len(UpperChars) : UpperChars[i] = ch
    THEN LowerChars[CHOOSE i \in 1..Len(UpperChars) : UpperChars[i] = ch]
    ELSE ch

\* str.lower()
Lower(s) == [i \in 1..Len(s) |-> LowerChar(s[i])]

\* str.startswith(prefix)
StartsWith(s, prefix) ==
  Len(s) >= Len(prefix) /\ SubSeq(s, 1, Len(prefix)) = prefix

\* As tts_lang_from_googletrans_code, without c = code.lower().
tts_lang_no_lower(code) ==
  IF code = NoCode \/ code = <<>> THEN <<"e", "n">>
  ELSE LET c == code IN
    IF c \in {<<"z", "h", "-", "c", "n">>, <<"z", "h", "-", "t", "w">>} THEN <<"z", "h">>
    ELSE IF StartsWith(c, <<"p", "t", "-">>) THEN <<"p", "t">>
    ELSE IF StartsWith(c, <<"e", "n", "-">>) THEN <<"e", "n">>
    ELSE IF StartsWith(c, <<"e", "s", "-">>) THEN <<"e", "s">>
    ELSE IF StartsWith(c, <<"f", "r", "-">>) THEN <<"f", "r">>
    ELSE IF StartsWith(c, <<"d", "e", "-">>) THEN <<"d", "e">>
    ELSE c

tts_lang_from_googletrans_code(code) ==
  IF code = NoCode \/ code = <<>> THEN <<"e", "n">>
  ELSE LET c == Lower(code) IN
    IF c \in {<<"z", "h", "-", "c", "n">>, <<"z", "h", "-", "t", "w">>} THEN <<"z", "h">>
    ELSE IF StartsWith(c, <<"p", "t", "-">>) THEN <<"p", "t">>
    ELSE IF StartsWith(c, <<"e", "n", "-">>) THEN <<"e", "n">>
    ELSE IF StartsWith(c, <<"e", "s", "-">>) THEN <<"e", "s">>
    ELSE IF StartsWith(c, <<"f", "r", "-">>) THEN <<"f", "r">>
    ELSE IF StartsWith(c, <<"d", "e", "-">>) THEN <<"d", "e">>
    ELSE c

\* The normalizer has not been applied.
NormalizerIdle == [code |-> NoCode, result |-> <<>>, done |-> FALSE]

\* The normalizer is applied to the code it was given.
Normalize ==
  /\ ~normalizer.done
  /\ normalizer' = [normalizer EXCEPT
                      !.result = tts_lang_from_googletrans_code(normalizer.code),
                      !.done = TRUE]
  /\ UNCHANGED <<session_state, uploaded_file, files, dirs, clock, runs, run>>

(* ----------------------------- script runs ----------------------------- *)
\* What one run of the script did to the outside world: the engine calls it
\* made, the messages it showed, the files it opened for writing.
NoRun ==
  [action |-> "start",
   load_calls |-> 0, transcribe_calls |-> 0, translate_calls |-> 0, tts_calls |-> 0,
   transcribe_ok |-> FALSE, translate_ok |-> FALSE, tts_ok |-> FALSE,
   whisper_text |-> <<>>,
   translate_text |-> <<>>, translate_dest |-> NoCode,
   tts_text |-> <<>>, tts_lang |-> <<>>,
   messages |-> {}, uncaught |-> FALSE, stopped |-> FALSE,
   wrote |-> {}, overwrote |-> {}, output_folder |-> <<>>]

\* The session as the first run of the script leaves it.
InitSession ==
  /\ session_state =
       [last_transcription |-> <<>>,
        last_translation |-> <<>>,
        last_language_label |-> "",
        last_output_folder |-> <<>>,
        has_results |-> FALSE,
        translation_error |-> "",
        last_language_code |-> NoCode,
        target_language_label |-> LabelOrder[1]]
  /\ uploaded_file = NoFile
  /\ files = <<>>
  /\ dirs = {temp_upload_folder, results_folder}
  /\ clock = 0
  /\ runs = 0
  /\ run = NoRun

Init == InitSession /\ normalizer = NormalizerIdle

\* The file uploader gets a file, another file, or is emptied; the script
\* re-runs with no button pressed.
Upload(f) ==
  /\ f # uploaded_file
  /\ uploaded_file' = f
  /\ run' = [NoRun EXCEPT !.action = "upload"]
  /\ UNCHANGED <<session_state, files, dirs, clock, runs, normalizer>>
(* ------------------------ retranslate_from_state ----------------------- *)
\* last_translation = ""; last_language_label = ""
\* As ClearTranslation, with the stored translation left in place.
ClearTranslation_keep(ss) == ss

ClearTranslation(ss) ==
  [ss EXCEPT !.last_translation = <<>>, !.last_language_label = ""]

\* As StoreTranslation, without the assignment to last_language_code.
StoreTranslation_no_code(ss, label, code, translation_text) ==
  [ss EXCEPT !.last_translation = translation_text,
             !.last_language_label = label]

\* The assignments that follow a translation that succeeded.
StoreTranslation(ss, label, code, translation_text) ==
  [ss EXCEPT !.last_translation = translation_text,
             !.last_language_label = label,
             !.last_language_code = code]

\* The except branch of retranslate_from_state.
\* As TranslationFailed, with the stored translation left in place.
TranslationFailed_keep(ss, e) == [ss EXCEPT !.translation_error = e]

TranslationFailed(ss, e) ==
  [ClearTranslation(ss) EXCEPT !.translation_error = e]

\* As NothingToTranslate, without the test of the stripped transcription.
NothingToTranslate_no_strip(ss) == ~ss.has_results

\* "If we haven't transcribed yet, nothing to translate."
NothingToTranslate(ss) == ~ss.has_results \/ Strip(ss.last_transcription) = <<>>

\* As ClearError, with the assignment left out.
ClearError_missing(ss) == ss

\* translation_error = "", the first statement of the callback.
ClearError(ss) == [ss EXCEPT !.translation_error = ""]

\* The outcomes of one translator.translate call: "ok", or the str(e) of the
\* exception it raises.
TranslateOutcomes == {"ok"} \cup TranslateErrors

\* The target-language selectbox changes to label: Streamlit stores the new
\* value under the widget's key, calls the on_change callback, then re-runs the
\* script (no button pressed).
SelectLanguage(label) ==
  /\ label # session_state.target_language_label
  /\ LET ss0 == ClearError([session_state EXCEPT !.target_language_label = label])
         code == LANG_OPTIONS[label]
         r0 == [NoRun EXCEPT !.action = "select"]
     IN
       IF NothingToTranslate(ss0) THEN
         /\ session_state' = ClearTranslation(ss0)
         /\ run' = r0
         /\ UNCHANGED <<files, dirs>>
       ELSE IF code = NoCode THEN
         /\ session_state' = ClearTranslation(ss0)
         /\ run' = r0
         /\ UNCHANGED <<files, dirs>>
       ELSE
         \E outcome \in TranslateOutcomes :
           LET transcription_text == Strip(ss0.last_transcription)
               r1 == [r0 EXCEPT !.translate_calls = 1,
                                !.translate_text = transcription_text,
                                !.translate_dest = code,
                                !.translate_ok = (outcome = "ok")]
           IN
             IF outcome = "ok" THEN
               LET translation_text == Strip(TranslatorText(transcription_text, code))
                   output_folder == IF ss0.last_output_folder # <<>>
                                      THEN ss0.last_output_folder ELSE results_folder
                   fs1 == save_translation(files, output_folder, label, translation_text)
               IN
                 /\ files' = fs1
                 /\ dirs' = MakeDirs(dirs, output_folder \o <<"Translations">>)
                 /\ session_state' = StoreTranslation(ss0, label, code, translation_text)
                 /\ run' = [r1 EXCEPT !.wrote = {translation_file(output_folder, label)},
                                      !.overwrote = Existing(files, translation_file(output_folder, label))]
             ELSE
               /\ session_state' = TranslationFailed(ss0, outcome)
               /\ run' = r1
               /\ UNCHANGED <<files, dirs>>
  /\ UNCHANGED <<uploaded_file, clock, runs, normalizer>>
(* --------------------------- Action: Transcribe ------------------------ *)
\* As StoreTranscription, without "Reset translation".
StoreTranscription_no_reset(ss, transcription_text, output_folder) ==
  [ss EXCEPT !.last_transcription = transcription_text,
             !.last_output_folder = output_folder,
             !.has_results = TRUE]

\* "Persist results" and "Reset translation".
\* As StoreTranscription, with last_output_folder left as it was.
StoreTranscription_no_folder(ss, transcription_text, output_folder) ==
  [ss EXCEPT !.last_transcription = transcription_text,
             !.has_results = TRUE,
             !.last_translation = <<>>,
             !.last_language_label = "",
             !.translation_error = ""]

StoreTranscription(ss, transcription_text, output_folder) ==
  [ss EXCEPT !.last_transcription = transcription_text,
             !.last_output_folder = output_folder,
             !.has_results = TRUE,
             !.last_translation = <<>>,
             !.last_language_label = "",
             !.translation_error = ""]

\* As TranscribeFailed, with "Reset translation" placed before the engine call.
TranscribeFailed_after_reset(ss) == ClearTranslation(ss)

\* The except branch of the button when transcribe() raised: st.error only.
TranscribeFailed(ss) == ss

\* As NoFileRun, with a bare st.stop().
NoFileRun_silent(r) == [r EXCEPT !.stopped = TRUE]

\* No file was uploaded: st.error(...); st.stop()
NoFileRun(r) == [r EXCEPT !.messages = {"no_file"}, !.stopped = TRUE]

\* What whisper's transcribe() does: raise, or return a result.
TranscribeOutcomes == {[ok |-> FALSE, result |-> NoText]} \cup
                      {[ok |-> TRUE, result |-> r] : r \in WhisperResults}

\* The temporary upload is written with open(path, "wb").
WriteTempFile(fs, f) == WriteFile(fs, temp_file_path(f), AudioBytes)

\* The "Transcribe" button is pressed: one run of the script.
Transcribe ==
  LET r0 == [NoRun EXCEPT !.action = "transcribe"] IN
  IF uploaded_file = NoFile THEN
    /\ run' = NoFileRun(r0)
    /\ UNCHANGED <<session_state, uploaded_file, files, dirs, clock, runs, normalizer>>
  ELSE
    LET fs1 == WriteTempFile(files, uploaded_file)
        r1 == [r0 EXCEPT !.wrote = {temp_file_path(uploaded_file)},
                         !.overwrote = Existing(files, temp_file_path(uploaded_file)),
                         !.load_calls = 1]
    IN
    /\ runs < MaxTranscribes
    /\ runs' = runs + 1
    /\ \E load_ok \in BOOLEAN :
      IF ~load_ok THEN
        \* load_model raises outside the try block: the run ends there.
        /\ files' = fs1
        /\ run' = [r1 EXCEPT !.uncaught = TRUE]
        /\ UNCHANGED <<session_state, uploaded_file, dirs, clock, normalizer>>
      ELSE
        \* the first run reads the clock; a later one falls in the second of
        \* the run before it, or in a later second
        \E now \in (IF runs = 0 THEN {clock} ELSE {clock, clock + 1}),
           t \in TranscribeOutcomes :
          LET output_folder == create_output_folder(uploaded_file, now)
              ds1 == MakeDirs(dirs, output_folder)
              r2 == [r1 EXCEPT !.output_folder = output_folder,
                               !.transcribe_calls = 1,
                               !.transcribe_ok = t.ok]
          IN
          /\ clock' = now
          /\ UNCHANGED <<uploaded_file, normalizer>>
          /\ IF ~t.ok THEN
               /\ files' = fs1
               /\ dirs' = ds1
               /\ session_state' = TranscribeFailed(session_state)
               /\ run' = [r2 EXCEPT !.messages = {"error"}]
             ELSE
               LET transcription_text == Strip(TextOrEmpty(t.result))
                   fs2 == save_transcription(fs1, output_folder, transcription_text)
                   ss1 == StoreTranscription(session_state, transcription_text, output_folder)
                   target_language_label == session_state.target_language_label
                   target_language_code == LANG_OPTIONS[target_language_label]
                   r3 == [r2 EXCEPT !.whisper_text = TextOrEmpty(t.result),
                                    !.wrote = @ \cup {transcription_file(output_folder)},
                                    !.overwrote = @ \cup
                                       Existing(fs1, transcription_file(output_folder))]
               IN
               IF target_language_code # NoCode /\ transcription_text # <<>> THEN
                 \E outcome \in TranslateOutcomes :
                   LET r4 == [r3 EXCEPT !.translate_calls = 1,
                                        !.translate_text = transcription_text,
                                        !.translate_dest = target_language_code,
                                        !.translate_ok = (outcome = "ok")]
                   IN
                   IF outcome = "ok" THEN
                     LET translation_text ==
                           Strip(TranslatorText(transcription_text, target_language_code))
                     IN
                     /\ files' = save_translation(fs2, output_folder,
                                                  target_language_label, translation_text)
                     /\ dirs' = MakeDirs(ds1, output_folder \o <<"Translations">>)
                     /\ session_state' =
                          StoreTranslation(ss1, target_language_label,
                                           target_language_code, translation_text)
                     /\ run' = [r4 EXCEPT
                                  !.wrote = @ \cup
                                    {translation_file(output_folder, target_language_label)},
                                  !.overwrote = @ \cup
                                    Existing(fs2, translation_file(output_folder,
                                                                   target_language_label))]
                   ELSE
                     \* the exception lands in the except branch of the button
                     /\ files' = fs2
                     /\ dirs' = ds1
                     /\ session_state' = ss1
                     /\ run' = [r4 EXCEPT !.messages = {"error"}]
               ELSE
                 /\ files' = fs2
                 /\ dirs' = ds1
                 /\ session_state' = ss1
                 /\ run' = r3

(* -------------------------------- Listen ------------------------------- *)
\* gTTS: audio bytes, an empty byte stream, or an exception.
TtsOutcomes == {"ok", "empty", "error"}

\* As speak_text, without the test for an empty text.
speak_text_no_guard(r, text, tts_lang, outcome) ==
  [r EXCEPT !.tts_calls = 1,
            !.tts_text = Strip(text),
            !.tts_lang = tts_lang,
            !.tts_ok = (outcome = "ok"),
            !.messages = IF outcome = "ok" THEN {} ELSE {"error"}]

\* As speak_text, with a second gTTS request after one that failed.
speak_text_retry(r, text, tts_lang, outcome) ==
  IF text = <<>> \/ Strip(text) = <<>> THEN [r EXCEPT !.messages = {"warning"}]
  ELSE [r EXCEPT !.tts_calls = IF outcome = "ok" THEN 1 ELSE 2,
                 !.tts_text = Strip(text),
                 !.tts_lang = tts_lang,
                 !.tts_ok = (outcome = "ok"),
                 !.messages = IF outcome = "ok" THEN {} ELSE {"error"}]

\* speak_text: the run record after speaking text in tts_lang.
speak_text(r, text, tts_lang, outcome) ==
  IF text = <<>> \/ Strip(text) = <<>> THEN [r EXCEPT !.messages = {"warning"}]
  ELSE [r EXCEPT !.tts_calls = 1,
                 !.tts_text = Strip(text),
                 !.tts_lang = tts_lang,
                 !.tts_ok = (outcome = "ok"),
                 !.messages = IF outcome = "ok" THEN {} ELSE {"error"}]

\* The Listen button under the transcription (shown once there are results).
ListenTranscription ==
  /\ session_state.has_results
  /\ \E outcome \in TtsOutcomes :
       run' = speak_text([NoRun EXCEPT !.action = "listen_transcription"],
                         session_state.last_transcription, <<"e", "n">>, outcome)
  /\ UNCHANGED <<session_state, uploaded_file, files, dirs, clock, runs, normalizer>>

\* As ListenTranslation, with last_language_code passed to gTTS as it is.
ListenTranslation_raw_code ==
  /\ session_state.has_results
  /\ session_state.last_translation # <<>>
  /\ \E outcome \in TtsOutcomes :
       run' = speak_text([NoRun EXCEPT !.action = "listen_translation"],
                         session_state.last_translation,
                         session_state.last_language_code,
                         outcome)
  /\ UNCHANGED <<session_state, uploaded_file, files, dirs, clock, runs, normalizer>>

\* The Listen button under the translation (shown while one is stored).
ListenTranslation ==
  /\ session_state.has_results
  /\ session_state.last_translation # <<>>
  /\ \E outcome \in TtsOutcomes :
       run' = speak_text([NoRun EXCEPT !.action = "listen_translation"],
                         session_state.last_translation,
                         tts_lang_from_googletrans_code(session_state.last_language_code),
                         outcome)
  /\ UNCHANGED <<session_state, uploaded_file, files, dirs, clock, runs, normalizer>>

(* ---------------------------- specification ---------------------------- *)
Next ==
  \/ \E f \in UploadNames \cup {NoFile} : Upload(f)
  \/ \E label \in Labels : SelectLanguage(label)
  \/ Transcribe
  \/ ListenTranscription
  \/ ListenTranslation

Spec == Init /\ [][Next]_vars

(* ------------------- the normalizer on a set of codes ------------------ *)
UpperChar(ch) ==
  IF \E i \in 1..Len(LowerChars) : LowerChars[i] = ch
    THEN UpperChars[CHOOSE i \in 1..Len(LowerChars) : LowerChars[i] = ch]
    ELSE ch

Upper(s) == [i \in 1..Len(s) |-> UpperChar(s[i])]

\* The codes of the registry, and "en".
BaseCodes ==
  ({LANG_OPTIONS[l] : l \in DOMAIN LANG_OPTIONS} \ {NoCode}) \cup {<<"e", "n">>}

\* A code as it is, in upper case, capitalised, and with a region.
CodeVariants(c) ==
  {c, Upper(c), <<UpperChar(c[1])>> \o Tail(c),
   c \o <<"-", "B", "R">>, c \o <<"-", "u", "s">>, Upper(c) \o <<"-", "B", "R">>}

NormalizerInputs == {NoCode} \cup UNION {CodeVariants(c) : c \in BaseCodes}

InitNormalizer ==
  /\ InitSession
  /\ normalizer \in {[NormalizerIdle EXCEPT !.code = c] : c \in NormalizerInputs}

SpecNormalizer == InitNormalizer /\ [][Normalize]_vars
(* ======================================================================= *)
(* Properties                                                              *)
(* ======================================================================= *)
\* The latest run pressed Transcribe with a file and transcribe() returned.
TranscribeSucceeded ==
  run.action = "transcribe" /\ run.transcribe_calls = 1 /\ run.transcribe_ok

\* The latest run pressed Transcribe with a file and transcribe() raised.
TranscribeRaised ==
  run.action = "transcribe" /\ run.transcribe_calls = 1 /\ ~run.transcribe_ok

\* The latest run made a translator.translate call, which raised.
TranslateRaised == run.translate_calls = 1 /\ ~run.translate_ok

\* The files below folder.
FilesUnder(folder) ==
  {p \in DOMAIN files : Len(p) > Len(folder) /\ SubSeq(p, 1, Len(folder)) = folder}

\* C1 - cache coherence: a stored translation that is not empty is the
\* trimmed answer of the translation engine for the stored transcription
\* and the code of the stored target language, which is the registry's code
\* of the stored label; no translation of an earlier transcription or of
\* another language stays stored.
C1_CacheCoherence ==
  session_state.last_translation # <<>> =>
    /\ session_state.last_language_label \in DOMAIN LANG_OPTIONS
    /\ session_state.last_language_code = LANG_OPTIONS[session_state.last_language_label]
    /\ session_state.last_language_code # NoCode
    /\ session_state.last_translation =
         Strip(TranslatorText(session_state.last_transcription,
                              session_state.last_language_code))

\* A translation is stored while the disk holds a translation file made
\* earlier for another language or in another run's folder.
C1_Witness ==
  /\ session_state.last_translation # <<>>
  /\ \E p \in DOMAIN files :
       /\ Len(p) = 4
       /\ p[3] = "Translations"
       /\ p # translation_file(session_state.last_output_folder,
                               session_state.last_language_label)

\* C2 as stated: after a transcribe action whose engine call returned T, the
\* transcription is T trimmed, has_results is set and the output folder is
\* this run's; the translation is empty with no translation call when "None"
\* is selected or T trims to nothing, and otherwise is the trimmed engine
\* answer for (T trimmed, selected code), stored with the selected label and
\* code.
C2_AsStated ==
  TranscribeSucceeded =>
    LET T == Strip(run.whisper_text)
        label == session_state.target_language_label
        code == LANG_OPTIONS[label]
    IN
      /\ session_state.last_transcription = T
      /\ session_state.has_results
      /\ session_state.last_output_folder = run.output_folder
      /\ IF code = NoCode \/ T = <<>>
           THEN session_state.last_translation = <<>> /\ run.translate_calls = 0
           ELSE /\ session_state.last_translation = Strip(TranslatorText(T, code))
                /\ session_state.last_language_label = label
                /\ session_state.last_language_code = code

\* C2 - as C2_AsStated, where the last case is split on the chained
\* translation call: when it returns, the translation is its trimmed answer
\* and the label and code are the selected ones; when it raises, the
\* translation and the label are empty.
C2_AfterTranscription ==
  TranscribeSucceeded =>
    LET T == Strip(run.whisper_text)
        label == session_state.target_language_label
        code == LANG_OPTIONS[label]
    IN
      /\ session_state.last_transcription = T
      /\ session_state.has_results
      /\ session_state.last_output_folder = run.output_folder
      /\ IF code = NoCode \/ T = <<>>
           THEN session_state.last_translation = <<>> /\ run.translate_calls = 0
           ELSE /\ run.translate_calls = 1
                /\ run.translate_text = T
                /\ run.translate_dest = code
                /\ IF run.translate_ok
                     THEN /\ session_state.last_translation = Strip(TranslatorText(T, code))
                          /\ session_state.last_language_label = label
                          /\ session_state.last_language_code = code
                     ELSE /\ session_state.last_translation = <<>>
                          /\ session_state.last_language_label = ""

\* A transcription with surrounding whitespace was translated in the same run.
C2_Witness ==
  /\ TranscribeSucceeded
  /\ run.whisper_text # Strip(run.whisper_text)
  /\ run.translate_calls = 1
  /\ run.translate_ok
  /\ session_state.last_translation # <<>>

\* C3 - whenever a translation call raises, chained after a transcription or
\* made by the selector callback, the transcription is the text the
\* translation was attempted on, the translation is empty and
\* translation_error holds a message.
C3_TranslationFailure ==
  TranslateRaised =>
    /\ session_state.last_transcription = run.translate_text
    /\ session_state.last_translation = <<>>
    /\ session_state.translation_error # ""

\* C4 - a transcribe action whose engine call raises leaves every key of the
\* session state as it was, makes no translation call and shows an error.
C4_TranscribeFailureFrame ==
  [][TranscribeRaised' =>
       /\ session_state' = session_state
       /\ run'.translate_calls = 0
       /\ run'.messages # {}]_vars

\* transcribe() raised in a session that holds a transcription and its
\* translation.
C4_Witness ==
  /\ TranscribeRaised
  /\ session_state.has_results
  /\ session_state.last_translation # <<>>
\* C5 - switching the selector to "None" in a state that holds a
\* transcription and a translation makes no translation call, leaves the
\* translation and the label empty and the code absent, and keeps the
\* transcription, has_results and the output folder.
C5_SelectNone ==
  [][(/\ run'.action = "select"
      /\ session_state'.target_language_label = "None"
      /\ session_state.has_results
      /\ session_state.last_transcription # <<>>
      /\ session_state.last_translation # <<>>) =>
       /\ run'.translate_calls = 0
       /\ session_state'.last_translation = <<>>
       /\ session_state'.last_language_label = ""
       /\ session_state'.last_language_code = NoCode
       /\ session_state'.last_transcription = session_state.last_transcription
       /\ session_state'.has_results = session_state.has_results
       /\ session_state'.last_output_folder = session_state.last_output_folder]_vars

\* C6 - a transcribe action with no uploaded file calls no engine, writes
\* no file, changes no key of the session state and shows an error.
C6_NoFile ==
  [][(run'.action = "transcribe" /\ uploaded_file = NoFile) =>
       /\ run'.load_calls = 0
       /\ run'.transcribe_calls = 0
       /\ run'.translate_calls = 0
       /\ run'.tts_calls = 0
       /\ run'.wrote = {}
       /\ files' = files
       /\ session_state' = session_state
       /\ run'.messages # {}]_vars

\* Transcribe was pressed with the uploader empty, in a fresh session.
C6_Witness ==
  /\ run.action = "transcribe"
  /\ uploaded_file = NoFile
  /\ run.load_calls = 0
  /\ ~session_state.has_results

\* C7 - between user actions no transient upload file exists: every
\* transcribe action that wrote one has deleted it by the time it ends.
C7_TransientFileDeleted == FilesUnder(temp_upload_folder) = {}

\* C8 - the stored code is the registry's code of the stored label, and is
\* absent whenever the stored label is empty.
C8_CodeFollowsLabel ==
  session_state.last_language_code =
    IF session_state.last_language_label = "" THEN NoCode
    ELSE LANG_OPTIONS[session_state.last_language_label]

\* C9 - a translation stored by the selector callback is determined by the
\* stored transcription and the selected language alone, so running it again
\* for the same pair gives the same value; the label's file holds exactly
\* that value (it is overwritten, not appended to) and is the only file of
\* that label in the run's Translations folder.
C9_RetranslateIdempotent ==
  (run.action = "select" /\ run.translate_calls = 1 /\ run.translate_ok) =>
    LET label == session_state.target_language_label
        folder == session_state.last_output_folder
        p == translation_file(folder, label)
        value == Strip(TranslatorText(session_state.last_transcription, LANG_OPTIONS[label]))
    IN
      /\ session_state.last_translation = value
      /\ p \in DOMAIN files
      /\ files[p] = value
      /\ {q \in FilesUnder(folder \o <<"Translations">>) :
            q[Len(q)] = label \o "_translation.txt"} = {p}

\* The selector callback translated into a language that had been translated
\* into before in this folder: the label's file was already there.
C9_Witness ==
  /\ run.action = "select"
  /\ run.translate_calls = 1
  /\ run.translate_ok
  /\ run.overwrote # {}

\* C10 - the files mirror the store: with has_results set, transcription.txt
\* under the output folder holds exactly the stored transcription, and while
\* a translation is stored the label's file under the same folder exists and
\* holds exactly the stored translation.
C10_FilesMirrorStore ==
  session_state.has_results =>
    LET folder == session_state.last_output_folder
        t == transcription_file(folder)
        p == translation_file(folder, session_state.last_language_label)
    IN
      /\ t \in DOMAIN files
      /\ files[t] = session_state.last_transcription
      /\ session_state.last_translation # <<>> =>
           (p \in DOMAIN files /\ files[p] = session_state.last_translation)

\* A second run reused the folder of the first (same name, same second) and
\* its transcription was translated.
C10_Witness ==
  /\ TranscribeSucceeded
  /\ transcription_file(run.output_folder) \in run.overwrote
  /\ session_state.last_translation # <<>>
\* The latest run pressed one of the two Listen buttons.
Listened == run.action \in {"listen_transcription", "listen_translation"}

\* C11 - a listen action changes no key of the session state, whatever the
\* synthesis engine does; when the text to speak is empty after trimming it
\* makes no synthesis call and shows a warning only.
C11_ListenFrame ==
  [][Listened' =>
       /\ session_state' = session_state
       /\ LET text == IF run'.action = "listen_transcription"
                        THEN session_state.last_transcription
                        ELSE session_state.last_translation
          IN IF Strip(text) = <<>>
               THEN run'.tts_calls = 0 /\ run'.messages = {"warning"}
               ELSE run'.tts_calls = 1 /\ run'.tts_text = Strip(text)]_vars

\* Listen was pressed under an empty transcription: a warning and no call.
C11_Witness ==
  /\ run.action = "listen_transcription"
  /\ session_state.has_results
  /\ session_state.last_transcription = <<>>
  /\ run.messages = {"warning"}
\* The four rules on a code that is not absent: the part before the first
\* "-" is the base.
HasRegion(c) == \E i \in 1..Len(c) : c[i] = "-"
BaseOf(c) == SubSeq(c, 1, (CHOOSE i \in 1..Len(c) : c[i] = "-" /\ \A j \in 1..(i - 1) : c[j] # "-") - 1)
RuleResult(c) ==
  IF c = <<"z", "h", "-", "c", "n">> \/ c = <<"z", "h", "-", "t", "w">> THEN <<"z", "h">>
  ELSE IF HasRegion(c) /\ BaseOf(c) \in {<<"p", "t">>, <<"e", "n">>, <<"e", "s">>,
                                          <<"f", "r">>, <<"d", "e">>}
    THEN BaseOf(c)
  ELSE c

\* C12 as stated: on every code of the set the normalizer gives "en" for an
\* absent code, "zh" for "zh-cn" and "zh-tw", the base for "<base>-<region>"
\* with base pt, en, es, fr or de, and every other code unchanged.
C12_AsStated ==
  normalizer.done =>
    normalizer.result =
      IF normalizer.code = NoCode THEN <<"e", "n">> ELSE RuleResult(normalizer.code)

\* C12 - as C12_AsStated, with the rules applied to the lower-cased code:
\* every other code is returned in lower case.
C12_Normalizer ==
  normalizer.done =>
    normalizer.result =
      IF normalizer.code = NoCode THEN <<"e", "n">> ELSE RuleResult(Lower(normalizer.code))

\* The normalizer was applied to a region-qualified code in upper case.
C12_Witness ==
  /\ normalizer.done
  /\ normalizer.code = <<"P", "T", "-", "B", "R">>
  /\ normalizer.result = <<"p", "t">>
\* load_model raised in the latest run.
LoadRaised == run.load_calls = 1 /\ run.transcribe_calls = 0

\* gTTS raised or gave no bytes in the latest run.
SynthesisFailed == run.tts_calls = 1 /\ ~run.tts_ok

\* C13 - a failure of any engine step (loading the model, transcribing,
\* translating, synthesizing) is caught inside the run and shown to the
\* user: no exception leaves the run.
C13_FailuresCaught ==
  (LoadRaised \/ TranscribeRaised \/ TranslateRaised \/ SynthesisFailed) =>
    /\ ~run.uncaught
    /\ run.messages # {} \/ session_state.translation_error # ""

\* C14 - a selector change made before any transcription, or while the
\* stored transcription is empty after trimming, makes no translation call,
\* writes no file and leaves the translation, the label and the error
\* empty, whichever language is selected.
C14_SelectWithoutTranscription ==
  [][(/\ run'.action = "select"
      /\ ~session_state.has_results \/ Strip(session_state.last_transcription) = <<>>) =>
       /\ run'.translate_calls = 0
       /\ run'.wrote = {}
       /\ files' = files
       /\ session_state'.last_translation = <<>>
       /\ session_state'.last_language_label = ""
       /\ session_state'.translation_error = ""]_vars

\* A language other than "None" was selected over an empty transcription.
C14_Witness ==
  /\ run.action = "select"
  /\ session_state.has_results
  /\ session_state.last_transcription = <<>>
  /\ session_state.target_language_label # "None"

\* What C15 says of a selector change and of a listen action.
SelectAndListenCalls ==
  /\ run.action = "select" =>
       /\ run.load_calls = 0 /\ run.transcribe_calls = 0 /\ run.tts_calls = 0
       /\ run.translate_calls <= 1
  /\ Listened =>
       /\ run.load_calls = 0 /\ run.transcribe_calls = 0 /\ run.translate_calls = 0
       /\ run.tts_calls <= 1

\* C15 as stated: a transcribe action with a file makes exactly one
\* transcription call and at most one translation call; a selector change
\* makes no transcription call and at most one translation call; a listen
\* action makes at most one synthesis call and no other.
C15_AsStated ==
  /\ (run.action = "transcribe" /\ uploaded_file # NoFile) =>
       /\ run.transcribe_calls = 1
       /\ run.translate_calls <= 1
       /\ run.tts_calls = 0
  /\ SelectAndListenCalls

\* C15 - as C15_AsStated, where a transcribe action with a file makes one
\* load_model call, and one transcription call exactly when the model loaded
\* (none, and no translation call, when load_model raised).
C15_OneTransition ==
  /\ (run.action = "transcribe" /\ uploaded_file # NoFile) =>
       /\ run.load_calls = 1
       /\ run.transcribe_calls = IF run.uncaught THEN 0 ELSE 1
       /\ run.translate_calls <= (IF run.transcribe_ok THEN 1 ELSE 0)
       /\ run.tts_calls = 0
  /\ SelectAndListenCalls

\* A transcribe action made its transcription call and a chained translation
\* call.
C15_Witness ==
  /\ run.action = "transcribe"
  /\ run.transcribe_calls = 1
  /\ run.translate_calls = 1

\* C16 - a synthesis call for the translation speaks the stored translation
\* in the normalizer's output for the registry code of the language that
\* translation was made in, never in a raw translation code; a call for the
\* transcription passes "en".
C16_SynthesisLanguage ==
  /\ (run.action = "listen_translation" /\ run.tts_calls = 1) =>
       LET code == LANG_OPTIONS[session_state.last_language_label] IN
       /\ run.tts_text = session_state.last_translation
       /\ session_state.last_translation =
            Strip(TranslatorText(session_state.last_transcription, code))
       /\ run.tts_lang = tts_lang_from_googletrans_code(code)
       /\ run.tts_lang \notin {<<"z", "h", "-", "c", "n">>, <<"z", "h", "-", "t", "w">>}
  /\ (run.action = "listen_transcription" /\ run.tts_calls = 1) =>
       run.tts_lang = <<"e", "n">>

\* A Chinese translation was read aloud after a translation into another
\* language had been made in the same folder.
C16_Witness ==
  /\ run.action = "listen_translation"
  /\ run.tts_calls = 1
  /\ session_state.last_language_code = <<"z", "h", "-", "c", "n">>
  /\ run.tts_lang = <<"z", "h">>
  /\ translation_file(session_state.last_output_folder, "Spanish") \in DOMAIN files
\* C17 - after a selector change or a successful transcription,
\* translation_error is non-empty only if the translation call of that same
\* run failed: the message of an earlier failure does not survive a later
\* successful or skipped attempt.
C17_ErrorIsOfThisRun ==
  (run.action = "select" \/ TranscribeSucceeded) =>
    (session_state.translation_error # "" => TranslateRaised)

\* A selector change translated successfully and no error is stored.
C17_Witness ==
  /\ run.action = "select"
  /\ run.translate_calls = 1
  /\ run.translate_ok
  /\ session_state.translation_error = ""
  /\ session_state.last_translation # <<>>

\* C18 - has_results is false until the first successful transcription and
\* never returns to false; while it is false the transcription, the
\* translation and the output folder are empty; while it is true the output
\* folder is a folder of its own under Results, and a translation saved by a
\* selector change lies under it.
C18_HasResults ==
  /\ [](~session_state.has_results =>
          /\ session_state.last_transcription = <<>>
          /\ session_state.last_translation = <<>>
          /\ session_state.last_output_folder = <<>>)
  /\ [](session_state.has_results =>
          /\ session_state.last_output_folder # <<>>
          /\ session_state.last_output_folder # results_folder
          /\ (run.action = "select" =>
                run.wrote \subseteq FilesUnder(session_state.last_output_folder)
                                      \ FilesUnder(results_folder \o <<"Translations">>)))
  /\ [][session_state.has_results => session_state'.has_results]_vars
  /\ [][(~session_state.has_results /\ session_state'.has_results) =>
          TranscribeSucceeded']_vars

\* A selector change saved a translation under the folder of the run.
C18_Witness ==
  /\ session_state.has_results
  /\ run.action = "select"
  /\ run.wrote =
       {translation_file(session_state.last_output_folder,
                         session_state.last_language_label)}

\* C19 - a stored translation is labelled with the language now selected:
\* last_translation non-empty implies last_language_label equals the
\* selector's label.
C19_TranslationOfSelected ==
  session_state.last_translation # <<>> =>
    session_state.last_language_label = session_state.target_language_label

\* A translation into another language is on disk from earlier in the
\* session, and the translation stored now is of the language selected now.
C19_Witness ==
  /\ session_state.last_translation # <<>>
  /\ session_state.target_language_label = "Spanish"
  /\ translation_file(session_state.last_output_folder, "Chinese (Simplified)")
       \in DOMAIN files

\* C20 - an error message and a translation are never stored together:
\* translation_error non-empty implies last_translation and
\* last_language_label are empty.
C20_ErrorExcludesTranslation ==
  session_state.translation_error # "" =>
    /\ session_state.last_translation = <<>>
    /\ session_state.last_language_label = ""

\* A translation failed while the translation into another language, made
\* earlier for the same transcription, is on disk.
C20_Witness ==
  /\ session_state.translation_error # ""
  /\ run.action = "select"
  /\ TranslateRaised
  /\ FilesUnder(session_state.last_output_folder \o <<"Translations">>) # {}
====
